---- MODULE Spec2Model ----
(***************************************************************************)
(* Model of src/server.js: the aggregation helpers (getNestedValue,        *)
(* calculateDistribution, calculateDistributionFromArray,                  *)
(* calculateBooleanDistribution, calculateGrowthData) and the              *)
(* POST /api/generate-report handler that assembles templateData.          *)
(*                                                                         *)
(* JavaScript values are tagged tuples, the tag first:                     *)
(*   <<"undefined">>  <<"null">>  <<"boolean", b>>  <<"number", n>>        *)
(*   <<"string", s>>  <<"array", <<v1, ..., vn>> >>                        *)
(*   <<"object", << <<k1, v1>>, ..., <<kn, vn>> >> >>  (own properties)    *)
(* Strings are TLA+ strings; Len, SubSeq and \o act on their characters.   *)
(***************************************************************************)
EXTENDS Integers, Sequences, FiniteSets, TLC

VARIABLES
    data,           \* the entry documents handed to an aggregation helper
    call,           \* the helper call being made: fn and its field arguments
    result,         \* what the helper returned, and its local total
    filteredGoals,  \* the goal-setting rows of the experience
    filteredExit,   \* the exit-form rows of the experience
    filteredEntry,  \* the entry-form rows or documents of the experience
    agg,            \* goalAgg and registeredAgg, the two $count results
    pc,             \* where the generate-report handler stands
    req,            \* req.body of the request being handled
    templateData,   \* the bundle handed to the template
    res,            \* the response sent
    today,          \* the day new Date() reads
    run,            \* 1 for a request, 2 for the same request sent again
    previous,       \* the bundle of run 1, kept for comparison
    effects,        \* what the handler has done outside itself for the request
    openBrowsers,   \* the browsers launched and not closed
    expReq,         \* the /api/experiences request and its environment
    instances,      \* the expInstanceData documents the query returns
    expRes,         \* the /api/experiences response
    mongodbUri,     \* process.env.MONGODB_URI
    mongoClient,    \* the module-level mongoClient
    mongoClientPromise, \* the module-level mongoClientPromise
    driver,         \* how many clients were constructed, how many connects made
    callers         \* the getMongoDb calls of the requests in flight

distVars == <<data, call, result>>

rowVars == <<filteredGoals, filteredExit>>

handlerVars == <<filteredEntry, agg, pc, req, templateData, res, today, run, previous,
                 effects, openBrowsers>>

expVars == <<expReq, instances, expRes>>

mongoVars == <<mongodbUri, mongoClient, mongoClientPromise, driver, callers>>

helperVars == <<distVars, rowVars, expVars, mongoVars>>

vars == <<data, call, result, filteredGoals, filteredExit, filteredEntry, agg, pc, req,
          templateData, res, today, run, previous, effects, openBrowsers,
          expReq, instances, expRes,
          mongodbUri, mongoClient, mongoClientPromise, driver, callers>>

\* ------------------------------------------------------------------ bounds

MaxRows == 3

MaxExitRows == 4

MaxFetched == 2

MaxDays == 2

MaxInstances == 3

MaxCallers == 4

\* ------------------------------------------------------- JavaScript values

Undefined == <<"undefined">>
Null == <<"null">>
Bool(b) == <<"boolean", b>>
Num(n) == <<"number", n>>
Str(s) == <<"string", s>>
Arr(a) == <<"array", a>>
Obj(o) == <<"object", o>>

TypeOf(v) == v[1]
IsNullish(v) == TypeOf(v) \in {"undefined", "null"}

Digits == <<"0", "1", "2", "3", "4", "5", "6", "7", "8", "9">>

CharAt(s, i) == SubSeq(s, i, i)

IsDigit(c) == \E d \in 1..10 : Digits[d] = c

DigitValue(c) == (CHOOSE d \in 1..10 : Digits[d] = c) - 1

RECURSIVE NatToStr(_)
NatToStr(n) == IF n < 10 THEN Digits[n + 1]
               ELSE NatToStr(n \div 10) \o Digits[(n % 10) + 1]

RECURSIVE StrToNat(_)
StrToNat(s) == IF Len(s) = 0 THEN 0
               ELSE 10 * StrToNat(SubSeq(s, 1, Len(s) - 1)) + DigitValue(CharAt(s, Len(s)))

\* String.prototype.trim: white space is stripped from both ends.
IsWhiteSpace(c) == c \in {" ", "\t", "\n", "\r"}

RECURSIVE TrimStart(_)
TrimStart(s) == IF Len(s) > 0 /\ IsWhiteSpace(CharAt(s, 1))
                THEN TrimStart(SubSeq(s, 2, Len(s)))
                ELSE s

RECURSIVE TrimEnd(_)
TrimEnd(s) == IF Len(s) > 0 /\ IsWhiteSpace(CharAt(s, Len(s)))
              THEN TrimEnd(SubSeq(s, 1, Len(s) - 1))
              ELSE s

Trim(s) == TrimEnd(TrimStart(s))

\* String(raw): the string conversion of a value.
RECURSIVE JsString(_)
RECURSIVE JoinComma(_)
JoinComma(a) ==
    IF Len(a) = 0 THEN ""
    ELSE LET h == IF IsNullish(a[1]) THEN "" ELSE JsString(a[1])
         IN  IF Len(a) = 1 THEN h ELSE h \o "," \o JoinComma(Tail(a))

JsString(v) ==
    CASE TypeOf(v) = "string" -> v[2]
      [] TypeOf(v) = "number" -> IF v[2] < 0 THEN "-" \o NatToStr(0 - v[2]) ELSE NatToStr(v[2])
      [] TypeOf(v) = "boolean" -> IF v[2] THEN "true" ELSE "false"
      [] TypeOf(v) = "undefined" -> "undefined"
      [] TypeOf(v) = "null" -> "null"
      [] TypeOf(v) = "array" -> JoinComma(v[2])
      [] TypeOf(v) = "object" -> "[object Object]"

\* Boolean(raw), and the truthiness test of `a && b`, `a || b`, `!a`.
ToBoolean(v) ==
    CASE TypeOf(v) = "undefined" -> FALSE
      [] TypeOf(v) = "null" -> FALSE
      [] TypeOf(v) = "boolean" -> v[2]
      [] TypeOf(v) = "number" -> v[2] # 0
      [] TypeOf(v) = "string" -> v[2] # ""
      [] OTHER -> TRUE

IsArray(v) == TypeOf(v) = "array"

\* An array index: the canonical decimal form of an integer below 2^32 - 1.
\* Object.entries lists such keys first, in ascending numeric order.
\* Numbers are compared through their digits: by length, then digit by digit.
RECURSIVE DigitsLess(_, _)
DigitsLess(a, b) ==
    /\ Len(a) > 0
    /\ \/ DigitValue(CharAt(a, 1)) < DigitValue(CharAt(b, 1))
       \/ /\ CharAt(a, 1) = CharAt(b, 1)
          /\ DigitsLess(SubSeq(a, 2, Len(a)), SubSeq(b, 2, Len(b)))

IndexLess(a, b) == Len(a) < Len(b) \/ (Len(a) = Len(b) /\ DigitsLess(a, b))

IsArrayIndex(k) ==
    /\ Len(k) \in 1..10
    /\ \A i \in 1..Len(k) : IsDigit(CharAt(k, i))
    /\ (Len(k) > 1 => CharAt(k, 1) # "0")
    /\ IndexLess(k, "4294967295")

\* The element an index key names in a sequence of n elements, or 0.
ElementAt(k, n) ==
    IF IsArrayIndex(k) /\ Len(k) < 10 /\ StrToNat(k) < n THEN StrToNat(k) + 1 ELSE 0

HasOwn(o, k) == \E i \in 1..Len(o) : o[i][1] = k

OwnValue(o, k) == o[CHOOSE i \in 1..Len(o) : o[i][1] = k][2]

\* What the inherited accessor __proto__ of a plain object reads.
ObjectPrototype == <<"object", <<>>, "Object.prototype">>

\* What a statement that throws a TypeError yields in place of a value.
TypeError == <<"throw", "TypeError">>

\* current[part]: a TypeError when current is null or undefined; else the own
\* properties of an object and its inherited __proto__, the length and the
\* elements of strings and arrays, undefined for any other key.  The method
\* names of the built-in prototypes are not among the keys of the model.
PropGet(v, k) ==
    CASE IsNullish(v) -> TypeError
      [] TypeOf(v) = "object" ->
            IF HasOwn(v[2], k) THEN OwnValue(v[2], k)
            ELSE IF k = "__proto__" THEN ObjectPrototype
            ELSE Undefined
      [] TypeOf(v) = "array" ->
            IF k = "length" THEN Num(Len(v[2]))
            ELSE IF ElementAt(k, Len(v[2])) > 0 THEN v[2][ElementAt(k, Len(v[2]))]
            ELSE Undefined
      [] TypeOf(v) = "string" ->
            IF k = "length" THEN Num(Len(v[2]))
            ELSE IF ElementAt(k, Len(v[2])) > 0
                 THEN Str(CharAt(v[2], ElementAt(k, Len(v[2]))))
            ELSE Undefined
      [] OTHER -> Undefined

\* path.split("."): the pieces between the dots.
RECURSIVE SplitDot(_, _)
SplitDot(s, acc) ==
    IF Len(s) = 0 THEN <<acc>>
    ELSE IF CharAt(s, 1) = "." THEN <<acc>> \o SplitDot(SubSeq(s, 2, Len(s)), "")
    ELSE SplitDot(SubSeq(s, 2, Len(s)), acc \o CharAt(s, 1))

Split(path) == SplitDot(path, "")

\* Math.round((count / total) * 100): halves round up.
RoundPct(count, total) == (200 * count + total) \div (2 * total)

\* ------------------------------------------------------- getNestedValue

\* The loop without its guard against null and undefined.
RECURSIVE WalkUnguarded(_, _)
WalkUnguarded(current, parts) ==
    IF Len(parts) = 0 \/ current = TypeError THEN current
    ELSE WalkUnguarded(PropGet(current, parts[1]), Tail(parts))

\* The for loop of getNestedValue over the parts still to walk.
RECURSIVE Walk(_, _)
Walk(current, parts) ==
    IF Len(parts) = 0 THEN current
    ELSE IF IsNullish(current) THEN Undefined
    ELSE Walk(PropGet(current, parts[1]), Tail(parts))

getNestedValue(obj, path) ==
    IF ~ToBoolean(obj) \/ path = "" THEN Undefined
    ELSE Walk(obj, Split(path))

\* --------------------------------------------------- counting and ranking

\* counts[value] = (counts[value] || 0) + 1 on a counts object that began as
\* {}.  For the key "__proto__" with no own property of that name the read
\* yields Object.prototype, which is truthy, the sum is the string
\* "[object Object]1", and the write goes to the inherited __proto__ setter,
\* which ignores a string: counts is left as it was.
Increment(counts, value) ==
    IF HasOwn(counts, value)
    THEN [i \in 1..Len(counts) |->
            IF counts[i][1] = value THEN <<value, counts[i][2] + 1>> ELSE counts[i]]
    ELSE IF PropGet(Obj(counts), value) = Undefined
    THEN Append(counts, <<value, 1>>)
    ELSE counts

\* if (value !== "") { counts[value] = ...; total++; }
CountValue(acc, value) ==
    IF value # ""
    THEN [counts |-> Increment(acc.counts, value), total |-> acc.total + 1]
    ELSE acc

EmptyTally == [counts |-> <<>>, total |-> 0]

\* The keys of counts that are array indices, in ascending numeric order.
RECURSIVE AscendingIndexPairs(_)
AscendingIndexPairs(pairs) ==
    IF Len(pairs) = 0 THEN <<>>
    ELSE LET m == CHOOSE i \in 1..Len(pairs) :
                    \A j \in 1..Len(pairs) : ~IndexLess(pairs[j][1], pairs[i][1])
             rest == SubSeq(pairs, 1, m - 1) \o SubSeq(pairs, m + 1, Len(pairs))
         IN  <<pairs[m]>> \o AscendingIndexPairs(rest)

IsIndexPair(p) == IsArrayIndex(p[1])

IsNamePair(p) == ~IsArrayIndex(p[1])

\* Object.entries(counts): the array-index keys in ascending numeric order,
\* then the other keys in the order in which they were created.
ObjectEntries(counts) ==
    AscendingIndexPairs(SelectSeq(counts, IsIndexPair)) \o SelectSeq(counts, IsNamePair)

\* .map(([key, count]) => ({ label, count, percentage }))
Entry(pair, total) ==
    [label |-> pair[1], count |-> pair[2],
     percentage |-> IF total > 0 THEN RoundPct(pair[2], total) ELSE 0]

\* One element placed into an array already sorted by the comparator
\* (a, b) => b.percentage - a.percentage, behind the elements it does not beat.
RECURSIVE InsertByPercentage(_, _)
InsertByPercentage(sorted, e) ==
    IF Len(sorted) = 0 THEN <<e>>
    ELSE IF e.percentage - sorted[1].percentage > 0 THEN <<e>> \o sorted
    ELSE <<sorted[1]>> \o InsertByPercentage(Tail(sorted), e)

\* Array.prototype.sort with that comparator: a stable sort.
RECURSIVE SortByPercentage(_)
SortByPercentage(entries) ==
    IF Len(entries) = 0 THEN <<>>
    ELSE InsertByPercentage(SortByPercentage(SubSeq(entries, 1, Len(entries) - 1)),
                            entries[Len(entries)])

\* Object.entries(counts).map(...).sort(...)
Rank(tally) ==
    LET pairs == ObjectEntries(tally.counts)
    IN  SortByPercentage([i \in 1..Len(pairs) |-> Entry(pairs[i], tally.total)])

\* ----------------------------------------------------- calculateDistribution

\* raw === undefined || raw === null ? "" : String(raw).trim()
Normalize(raw) == IF IsNullish(raw) THEN "" ELSE Trim(JsString(raw))

RECURSIVE ScalarTally(_, _, _)
ScalarTally(rows, path, acc) ==
    IF Len(rows) = 0 THEN acc
    ELSE ScalarTally(Tail(rows), path,
                     CountValue(acc, Normalize(getNestedValue(rows[1], path))))

calculateDistribution(rows, path) == Rank(ScalarTally(rows, path, EmptyTally))

\* ------------------------------------------- calculateDistributionFromArray

\* raw.forEach((item) => ...)
RECURSIVE ItemsTally(_, _)
ItemsTally(items, acc) ==
    IF Len(items) = 0 THEN acc
    ELSE ItemsTally(Tail(items), CountValue(acc, Normalize(items[1])))

\* The array scan without its Array.isArray branch: an array value is
\* stringified and counted once.
RECURSIVE ArrayTallyNoExpand(_, _, _)
ArrayTallyNoExpand(rows, path, acc) ==
    IF Len(rows) = 0 THEN acc
    ELSE LET raw == getNestedValue(rows[1], path)
             next == IF ~IsNullish(raw) THEN CountValue(acc, Trim(JsString(raw))) ELSE acc
         IN  ArrayTallyNoExpand(Tail(rows), path, next)

RECURSIVE ArrayTally(_, _, _)
ArrayTally(rows, path, acc) ==
    IF Len(rows) = 0 THEN acc
    ELSE LET raw == getNestedValue(rows[1], path)
             next == IF IsArray(raw) THEN ItemsTally(raw[2], acc)
                     ELSE IF ~IsNullish(raw) THEN CountValue(acc, Trim(JsString(raw)))
                     ELSE acc
         IN  ArrayTally(Tail(rows), path, next)

calculateDistributionFromArray(rows, path) == Rank(ArrayTally(rows, path, EmptyTally))

\* --------------------------------------------- calculateBooleanDistribution

\* const counts = { [trueLabel]: 0, [falseLabel]: 0 }: own properties, the
\* second overwriting the first when both labels are the same string.
BooleanCounts(trueLabel, falseLabel) ==
    IF trueLabel = falseLabel THEN << <<trueLabel, 0>> >>
    ELSE << <<trueLabel, 0>>, <<falseLabel, 0>> >>

\* The boolean scan without its test for null and undefined: an absent value
\* is counted under the falsy label.
RECURSIVE BooleanTallyCountingAbsent(_, _, _, _, _)
BooleanTallyCountingAbsent(rows, path, trueLabel, falseLabel, acc) ==
    IF Len(rows) = 0 THEN acc
    ELSE LET raw == getNestedValue(rows[1], path)
             next == [counts |-> Increment(acc.counts,
                                    IF ToBoolean(raw) THEN trueLabel ELSE falseLabel),
                      total |-> acc.total + 1]
         IN  BooleanTallyCountingAbsent(Tail(rows), path, trueLabel, falseLabel, next)

RECURSIVE BooleanTally(_, _, _, _, _)
BooleanTally(rows, path, trueLabel, falseLabel, acc) ==
    IF Len(rows) = 0 THEN acc
    ELSE LET raw == getNestedValue(rows[1], path)
             next == IF ~IsNullish(raw)
                     THEN [counts |-> Increment(acc.counts,
                                        IF ToBoolean(raw) THEN trueLabel ELSE falseLabel),
                           total |->
                      acc.total + 1]
                     ELSE acc
         IN  BooleanTally(Tail(rows), path, trueLabel, falseLabel, next)

BooleanStart(trueLabel, falseLabel) ==
    [counts |-> BooleanCounts(trueLabel, falseLabel), total |-> 0]

calculateBooleanDistribution(rows, path, trueLabel, falseLabel) ==
    Rank(BooleanTally(rows, path, trueLabel, falseLabel,
                      BooleanStart(trueLabel, falseLabel)))

\* ------------------------------------------------------ calculateGrowthData

categories == <<"None", "Little", "Moderate", "A lot">>

\* { None: 0, Little: 0, Moderate: 0, "A lot": 0 }
ZeroCounts(cats) == [i \in 1..Len(cats) |-> <<cats[i], 0>>]

\* if (value && counts.hasOwnProperty(value)) counts[value]++
CountInDomain(counts, value) ==
    IF ToBoolean(value) /\ HasOwn(counts, JsString(value))
    THEN Increment(counts, JsString(value))
    ELSE counts

\* rows.forEach((row) => { const value = row[fieldName]; ... })
RECURSIVE DomainCounts(_, _, _)
DomainCounts(rows, fieldName, counts) ==
    IF Len(rows) = 0 THEN counts
    ELSE DomainCounts(Tail(rows), fieldName,
                      CountInDomain(counts, PropGet(rows[1], fieldName)))

\* goalData.length || 1
LengthOrOne(rows) == IF Len(rows) # 0 THEN Len(rows) ELSE 1

\* The comparator with the matched responses, not the rows, as denominators.
calculateGrowthDataOverMatched(goalData, exitData, expectedField, achievedField) ==
    LET expectedCounts == DomainCounts(goalData, expectedField, ZeroCounts(categories))
        achievedCounts == DomainCounts(exitData, achievedField, ZeroCounts(categories))
        Sum(c) == c[1][2] + c[2][2] + c[3][2] + c[4][2]
        totalExpected == IF Sum(expectedCounts) # 0 THEN Sum(expectedCounts) ELSE 1
        totalAchieved == IF Sum(achievedCounts) # 0 THEN Sum(achievedCounts) ELSE 1
    IN  [i \in 1..Len(categories) |->
            [category |-> categories[i],
             expected |-> RoundPct(OwnValue(expectedCounts, categories[i]), totalExpected),
             achieved |-> RoundPct(OwnValue(achievedCounts, categories[i]), totalAchieved)]]

calculateGrowthData(goalData, exitData, expectedField, achievedField) ==
    LET expectedCounts == DomainCounts(goalData, expectedField, ZeroCounts(categories))
        achievedCounts == DomainCounts(exitData, achievedField, ZeroCounts(categories))
        totalExpected == LengthOrOne(goalData)
        totalAchieved == LengthOrOne(exitData)
    IN  [i \in 1..Len(categories) |->
            [category |-> categories[i],
             expected |-> RoundPct(OwnValue(expectedCounts, categories[i]), totalExpected),
             achieved |-> RoundPct(OwnValue(achievedCounts, categories[i]), totalAchieved)]]

\* ------------------------------------------------- likelihood and activities

npsFields ==
    <<"Complete Minor Likelihood", "Repeat Experience Likelihood",
      "Pursue Career Likelihood", "Recommend Friend Likelihood">>

activityFields ==
    <<"Activity Class Discussion", "Activity HPE DSI Short Course",
      "Activity Class Presentations", "Activity Weekly OneNote",
      "Activity Peer Feedback", "Activity Extra Credit">>

\* String.fromCharCode(65 + index), index from 0
Letters == <<"A", "B", "C", "D", "E", "F">>

\* filteredExit.filter((row) => row[field] === v1 || row[field] === v2).length
MatchCount(rows, fieldName, affirmative) ==
    Cardinality({i \in 1..Len(rows) : PropGet(rows[i], fieldName) \in affirmative})

\* The percentage if it were truncated and not rounded.
ScorePercentageFloor(n, rows) == IF Len(rows) > 0 THEN (100 * n) \div Len(rows) ELSE 0

\* filteredExit.length > 0 ? Math.round((n / exits.length) * 100) : 0
ScorePercentage(n, rows) == IF Len(rows) > 0 THEN RoundPct(n, Len(rows)) ELSE 0

\* The scores if they were sorted by percentage like a distribution.
netPromoterScoresRanked(exits) ==
    SortByPercentage(
        [i \in 1..Len(npsFields) |->
            [category |-> Letters[i],
             percentage |-> ScorePercentage(
                 MatchCount(exits, npsFields[i], {Str("Likely"), Str("Extremely likely")}),
                 exits)]])

netPromoterScores(exits) ==
    [i \in 1..Len(npsFields) |->
        [category |-> Letters[i],
         percentage |-> ScorePercentage(
             MatchCount(exits, npsFields[i], {Str("Likely"), Str("Extremely likely")}),
             exits)]]

activitiesScores(exits) ==
    [i \in 1..Len(activityFields) |->
        [category |-> Letters[i],
         percentage |-> ScorePercentage(
             MatchCount(exits, activityFields[i], {Str("Yes")}), exits)]]

\* ----------------------------------------------------- the profile branch

UpperCase == "ABCDEFGHIJKLMNOPQRSTUVWXYZ"

LowerCase == "abcdefghijklmnopqrstuvwxyz"

LowerChar(c) ==
    IF \E i \in 1..26 : CharAt(UpperCase, i) = c
    THEN CharAt(LowerCase, CHOOSE i \in 1..26 : CharAt(UpperCase, i) = c)
    ELSE c

\* String.prototype.toLowerCase
RECURSIVE ToLowerCase(_)
ToLowerCase(str) ==
    IF Len(str) = 0 THEN "" ELSE LowerChar(CharAt(str, 1)) \o ToLowerCase(SubSeq(str, 2, Len(str)))

\* String.prototype.includes
Includes(str, part) ==
    \E i \in 1..(Len(str) - Len(part) + 1) : SubSeq(str, i, i + Len(part) - 1) = part

\* a || b
OrElse(a, b) == IF ToBoolean(a) THEN a ELSE b

\* What one entry pushes to allMinors: the elements of the two arrays, then
\* the two values that are truthy and no array.
MinorsOf(entry) ==
    LET honorsMinors == getNestedValue(entry, "studentInformation.enrolledUHInfo.honorsMinors")
        otherMinors == getNestedValue(entry, "studentInformation.enrolledUHInfo.otherMinors")
    IN  (IF IsArray(honorsMinors) THEN honorsMinors[2] ELSE <<>>)
        \o (IF IsArray(otherMinors) THEN otherMinors[2] ELSE <<>>)
        \o (IF ~IsArray(honorsMinors) /\ ToBoolean(honorsMinors) THEN <<honorsMinors>> ELSE <<>>)
        \o (IF ~IsArray(otherMinors) /\ ToBoolean(otherMinors) THEN <<otherMinors>> ELSE <<>>)

RECURSIVE AllMinors(_)
AllMinors(entries) ==
    IF Len(entries) = 0 THEN <<>> ELSE MinorsOf(entries[1]) \o AllMinors(Tail(entries))

minors(entries) == Rank(ItemsTally(AllMinors(entries), EmptyTally))

\* The category one programGradProType value is counted under, "" for none.
GradCategory(gradType) ==
    IF ~(ToBoolean(gradType) /\ TypeOf(gradType) \in {"object", "array"}) THEN ""
    ELSE LET label == OrElse(PropGet(gradType, "label"),
                         OrElse(PropGet(gradType, "id"),
                            IF ToBoolean(PropGet(gradType, "checked")) THEN Str("Yes") ELSE Null))
         IN  IF ~ToBoolean(label) THEN ""
             ELSE LET normalized == ToLowerCase(Trim(JsString(label)))
                  IN  IF Includes(normalized, "master") THEN "Masters"
                      ELSE IF Includes(normalized, "phd") \/ Includes(normalized, "ph.d")
                      THEN "PhD"
                      ELSE IF \/ Includes(normalized, "md")
                              \/ Includes(normalized, "do")
                              \/ Includes(normalized, "medical")
                      THEN "MD/DO"
                      ELSE "Other"

RECURSIVE GradTally(_, _)
GradTally(entries, acc) ==
    IF Len(entries) = 0 THEN acc
    ELSE LET cat == GradCategory(getNestedValue(entries[1],
                        "studentInformation.graduateProfessionalSchool.programGradProType"))
         IN  GradTally(Tail(entries),
                       IF cat = "" THEN acc
                       ELSE [counts |-> Increment(acc.counts, cat), total |-> acc.total + 1])

graduateSchoolInterest(entries) ==
    LET tally == GradTally(entries,
                    [counts |-> ZeroCounts(<<"Masters", "PhD", "MD/DO", "Other">>), total |-> 0])
        pairs == ObjectEntries(tally.counts)
        items == [i \in 1..Len(pairs) |-> Entry(pairs[i], tally.total)]
        Shown(item) == item.count > 0 \/ tally.total = 0
    IN  SortByPercentage(SelectSeq(items, Shown))

demographics(entries) ==
    [classification |-> <<>>, gender |-> <<>>, ethnicity |-> <<>>,
     minors |-> minors(entries), firstGeneration |-> <<>>, international |-> <<>>]

generalProfile(entries) ==
    [graduationYear |->
        calculateDistribution(entries, "studentInformation.enrolledUHInfo.expectedGraduationYear"),
     majors |->
        calculateDistributionFromArray(entries, "studentInformation.enrolledUHInfo.majors"),
     minors |-> minors(entries),
     firstGeneration |-> <<>>,
     international |-> <<>>,
     housing |->
        calculateBooleanDistribution(entries,
            "studentInformation.enrolledUHInfo.livingOnCampus", "On Campus", "Off Campus"),
     honorsCollegeAffiliation |->
        calculateBooleanDistribution(entries,
            "studentInformation.enrolledUHInfo.honorsCollegeAffiliatedStatus", "Yes", "No"),
     communityService |->
        calculateBooleanDistribution(entries,
            "studentInformation.communityServiceInfo.serviceStatus", "Yes", "No"),
     graduateSchoolInterest |-> graduateSchoolInterest(entries)]

\* [{ label, percentage }, ...] of the literal profiles
Fixed(labels, percentages) ==
    [i \in 1..Len(labels) |-> [label |-> labels[i], percentage |-> percentages[i]]]

academicProfile ==
    [gpa |-> Fixed(<<"3.5-4.0", "3.0-3.49", "2.5-2.99", "Below 2.5">>, <<45, 35, 15, 5>>),
     creditHours |-> Fixed(<<"12-15", "16-18", "9-11">>, <<60, 30, 10>>),
     research |-> Fixed(<<"Yes", "No">>, <<40, 60>>),
     internship |-> Fixed(<<"Yes", "No">>, <<35, 65>>)]

leadershipProfile ==
    [organizations |-> Fixed(<<"1-2", "3-4", "5+", "None">>, <<45, 30, 15, 10>>),
     positions |-> Fixed(<<"Officer", "Member", "President", "None">>, <<25, 50, 15, 10>>),
     volunteerHours |-> Fixed(<<"10-20", "20-40", "40+", "Less than 10">>, <<40, 30, 20, 10>>),
     serviceProjects |-> Fixed(<<"1-2", "3-4", "5+">>, <<50, 30, 20>>)]

researchProfile ==
    [projects |-> Fixed(<<"1", "2", "3+", "None">>, <<40, 30, 20, 10>>),
     publications |-> Fixed(<<"None", "1", "2+">>, <<70, 20, 10>>),
     presentations |-> Fixed(<<"None", "1-2", "3+">>, <<60, 30, 10>>),
     posters |-> Fixed(<<"None", "1-2", "3+">>, <<65, 25, 10>>)]

\* (agg && agg.length > 0 && agg[0].count) || 0
AggCount(counted) == IF Len(counted) > 0 /\ counted[1] # 0 THEN counted[1] ELSE 0

\* ------------------------------------------------------ the growth branch

\* val && val.trim(): false for a falsy value, the trimmed string's truth for
\* a string, and a TypeError for any other truthy value, which has no trim.
TruthyTrimmed(val) ==
    IF ~ToBoolean(val) THEN Bool(FALSE)
    ELSE IF TypeOf(val) # "string" THEN TypeError
    ELSE Bool(Trim(val[2]) # "")

goalFields == <<"Goal 1", "Goal 2", "Goal 3">>

\* The tests row["Goal n"] && row["Goal n"].trim() of all rows, in order.
GoalTestsOf(row) == [i \in 1..Len(goalFields) |-> TruthyTrimmed(PropGet(row, goalFields[i]))]

RECURSIVE GoalTests(_)
GoalTests(rows) ==
    IF Len(rows) = 0 THEN <<>> ELSE GoalTestsOf(rows[1]) \o GoalTests(Tail(rows))

\* One of the tests throws.
GoalTestThrows(goals) == \E i \in 1..Len(GoalTests(goals)) : GoalTests(goals)[i] = TypeError

\* The count if totalGoals were declared outside the handler and never reset.
totalGoalsKept(goals) ==
    Cardinality({i \in 1..Len(GoalTests(goals)) : GoalTests(goals)[i] = Bool(TRUE)})
        + (IF "totalGoals" \in DOMAIN previous THEN previous.totalGoals ELSE 0)

\* let totalGoals = 0; filteredGoals.forEach(...)
totalGoals(goals) ==
    Cardinality({i \in 1..Len(GoalTests(goals)) : GoalTests(goals)[i] = Bool(TRUE)})

\* Math.round((a / b) * 100) when b > 0, else 0
PercentageOf(a, b) == IF b > 0 THEN RoundPct(a, b) ELSE 0

competencies ==
    <<"Teamwork", "Professional Responsibility", "Effective Communication",
      "Problem Solving", "Cultural Humility", "Ethical Decision Making">>

studentGrowth(goals, exits) ==
    [i \in 1..Len(competencies) |->
        calculateGrowthData(goals, exits,
                            competencies[i] \o " Expected", competencies[i] \o " Achieved")]

progressCategories == <<"None", "Little", "Some", "Lots">>

connectionCategories == <<"None", "Partly", "Largely">>

\* filteredExit.forEach((row) => [f1, f2, f3].forEach((field) => ...))
RECURSIVE NumberedCounts(_, _, _)
NumberedCounts(rows, fieldNames, counts) ==
    IF Len(rows) = 0 THEN counts
    ELSE NumberedCounts(Tail(rows), fieldNames,
            CountInDomain(CountInDomain(CountInDomain(counts,
                PropGet(rows[1], fieldNames[1])),
                PropGet(rows[1], fieldNames[2])),
                PropGet(rows[1], fieldNames[3])))

RECURSIVE SumValues(_)
SumValues(counts) == IF Len(counts) = 0 THEN 0 ELSE counts[1][2] + SumValues(Tail(counts))

\* The distribution if every exit row counted as one response.
FixedDistributionOverRows(rows, fieldNames, cats) ==
    LET counts == NumberedCounts(rows, fieldNames, ZeroCounts(cats))
        total == IF Len(rows) # 0 THEN Len(rows) ELSE 1
    IN  [i \in 1..Len(cats) |->
            [category |-> cats[i], percentage |-> RoundPct(OwnValue(counts, cats[i]), total)]]

\* Object.values(counts).reduce((a, b) => a + b, 0) || 1, then the map.
FixedDistribution(rows, fieldNames, cats) ==
    LET counts == NumberedCounts(rows, fieldNames, ZeroCounts(cats))
        total == IF SumValues(counts) # 0 THEN SumValues(counts) ELSE 1
    IN  [i \in 1..Len(cats) |->
            [category |-> cats[i], percentage |-> RoundPct(OwnValue(counts, cats[i]), total)]]

progressFields == <<"Goal 1 Progress", "Goal 2 Progress", "Goal 3 Progress">>

connectionFields == <<"Goal 1 Connection", "Goal 2 Connection", "Goal 3 Connection">>

progressTowardsGoals(exits) == FixedDistribution(exits, progressFields, progressCategories)

experienceConnection(exits) == FixedDistribution(exits, connectionFields, connectionCategories)

npsTexts ==
    <<"% of students reported they are likely to extremely likely to complete the Data & Society minor",
      "% reported they are likely to extremely likely to enroll in another course/repeat the experience",
      "% reported they are extremely likely to pursue a career in data science",
      "% reported they are likely to extremely likely to recommend this course/experience to a friend">>

activityTexts ==
    <<"% Class discussion", "% HPE DSI Short Course", "% Class Presentations",
      "% Weekly OneNote check ins", "% Anonymous Peer feedback (Teammates)",
      "% Extra Credit Report">>

\* [{ label: "A", text: `${scores[0].percentage}...` }, ...]
Descriptions(scores, labels, texts) ==
    [i \in 1..Len(texts) |->
        [label |-> labels[i], text |-> NatToStr(scores[i].percentage) \o texts[i]]]

netPromoterDescriptions(scores) == Descriptions(scores, <<"A", "B", "C", "D">>, npsTexts)

activitiesDescriptions(scores) ==
    Descriptions(scores, <<"A", "B", "C", "D", "E", "F">>, activityTexts)

\* filteredExit.map((row) => row[column]).filter((val) => val && val.trim())
FreeText(rows, column) ==
    LET vals == [i \in 1..Len(rows) |-> PropGet(rows[i], column)]
        Kept(val) == TruthyTrimmed(val) = Bool(TRUE)
    IN  SelectSeq(vals, Kept)

\* The filter callback throws on one of the values.
FreeTextThrows(rows, column) ==
    \E i \in 1..Len(rows) : TruthyTrimmed(PropGet(rows[i], column)) = TypeError

\* ------------------------------------------- POST /api/generate-report

NoBundle == [none |-> TRUE]

NoResult == [returned |-> FALSE, value |-> <<>>]

NoResponse == [status |-> 0, body |-> "", details |-> ""]

NoRequest == [none |-> TRUE]

\* GET /api/experiences before any request.
ExperiencesIdle ==
    /\ expReq = NoRequest
    /\ instances = <<>>
    /\ expRes = NoResponse

\* The module before any getMongoDb call.
MongoIdle ==
    /\ mongodbUri = Undefined
    /\ mongoClient = 0
    /\ mongoClientPromise = 0
    /\ driver = [clients |-> 0, connects |-> 0, promises |-> <<>>]
    /\ callers = <<>>

\* The handler before any request.
HandlerIdle ==
    /\ filteredEntry = <<>>
    /\ agg = <<>>
    /\ pc = "idle"
    /\ req = NoRequest
    /\ templateData = NoBundle
    /\ res = NoResponse
    /\ today = 1
    /\ run = 1
    /\ previous = NoBundle
    /\ effects = {}
    /\ openBrowsers = 0

\* id === undefined || id === null ? "" : String(id).trim()
IdValue(id) == IF IsNullish(id) THEN "" ELSE Trim(JsString(id))

\* label === undefined || label === null ? value : String(label).trim() || value
Display(label, value) ==
    IF IsNullish(label) THEN value
    ELSE IF Trim(JsString(label)) # "" THEN Trim(JsString(label))
    ELSE value

sessionValue == IdValue(req.sessionId)

sessionDisplay == Display(req.sessionLabel, sessionValue)

experienceValue == IdValue(req.experienceId)

experienceDisplay == Display(req.experienceLabel, experienceValue)

\* imageToBase64(logoPath)
logoBase64 == "data:image/jpeg;base64,"

\* new Date().toLocaleDateString()
generatedDate == today

ProfileBundle ==
    [experience |-> experienceDisplay,
     session |-> sessionDisplay,
     instructorName |-> req.instructorName,
     generatedDate |-> generatedDate,
     logoBase64 |-> logoBase64,
     totalRegistered |-> AggCount(agg[2]),
     completedStudents |-> AggCount(agg[1]),
     completionPercentage |-> PercentageOf(AggCount(agg[1]), AggCount(agg[2])),
     demographics |-> demographics(filteredEntry),
     generalProfile |-> generalProfile(filteredEntry),
     academicProfile |-> academicProfile,
     leadershipProfile |-> leadershipProfile,
     researchProfile |-> researchProfile]

freeTextColumns == <<"Biggest Lesson Learned", "Experience Contribution", "Additional Comments">>

\* error.message of the TypeError a .trim() call on a non-string throws
trimIsNotAFunction == "trim is not a function"

\* A .trim() call of the growth branch meets a value that has no trim.
GrowthThrows ==
    \/ GoalTestThrows(filteredGoals)
    \/ \E i \in 1..Len(freeTextColumns) : FreeTextThrows(filteredExit, freeTextColumns[i])

GrowthBundle ==
    [experience |-> experienceValue,
     generatedDate |-> generatedDate,
     logoBase64 |-> logoBase64,
     totalRegistered |-> Len(filteredEntry),
     goalSettingCompleted |-> Len(filteredGoals),
     goalSettingPercentage |-> PercentageOf(Len(filteredGoals), Len(filteredEntry)),
     exitFormCompleted |-> Len(filteredExit),
     exitFormPercentage |-> PercentageOf(Len(filteredExit), Len(filteredEntry)),
     totalGoals |-> totalGoals(filteredGoals),
     studentGrowth |-> studentGrowth(filteredGoals, filteredExit),
     progressTowardsGoals |-> progressTowardsGoals(filteredExit),
     experienceConnection |-> experienceConnection(filteredExit),
     netPromoterScores |-> netPromoterScores(filteredExit),
     netPromoterDescriptions |-> netPromoterDescriptions(netPromoterScores(filteredExit)),
     activitiesScores |-> activitiesScores(filteredExit),
     activitiesDescriptions |-> activitiesDescriptions(activitiesScores(filteredExit)),
     biggestLessons |-> FreeText(filteredExit, freeTextColumns[1]),
     experienceContributions |-> FreeText(filteredExit, freeTextColumns[2]),
     additionalComments |-> FreeText(filteredExit, freeTextColumns[3])]

\* The request bodies sent to the endpoint.
Requests ==
    [reportType : {Str("profile"), Str("growth"), Str("summary"), Undefined},
     sessionId : {Str(" s1 "), Str("  "), Null, Undefined},
     sessionLabel : {Undefined},
     experienceId : {Str("e1"), Str(""), Null, Undefined},
     experienceLabel : {Str("Data & Society")},
     instructorName : {Str("Dr. Lee")}]

\* All sequences over S of at most n elements.
UpTo(S, n) == UNION {[1..k -> S] : k \in 0..n}

Cells(columns, cells) == [i \in 1..Len(columns) |-> <<columns[i], Str(cells[i])>>]

\* Goal-setting records: one of the experience, one whose first goal is a
\* number and not a string, and one of another experience.
CsvGoalRows ==
    { Obj(Cells(<<"Experience", "Goal 1", "Goal 2", "Teamwork Expected">>,
                <<"e1", "Learn SQL", "  ", "A lot">>)),
      Obj(<< <<"Experience", Str("e1")>>, <<"Goal 1", Num(5)>> >>),
      Obj(Cells(<<"Experience", "Goal 1">>, <<"e2", "Network">>)) }

\* Exit-form records.
CsvExitRows ==
    { Obj(Cells(<<"Experience", "Teamwork Achieved", "Goal 1 Progress", "Goal 1 Connection",
                  "Complete Minor Likelihood", "Activity Class Discussion",
                  "Biggest Lesson Learned", "Experience Contribution">>,
                <<"e1", "Moderate", "Some", "Partly", "Likely", "Yes", " Patience ", " ">>)),
      Obj(Cells(<<"Experience", "Complete Minor Likelihood", "Goal 1 Progress",
                  "Recommend Friend Likelihood", "Activity Extra Credit">>,
                <<"e1", "Unlikely", "Lots", "Extremely likely", "Yes">>)),
      Obj(Cells(<<"Experience", "Additional Comments">>, <<"e2", "Great">>)) }

\* Entry-form records.
CsvEntryRows == { Obj(Cells(<<"Experience">>, <<"e1">>)), Obj(Cells(<<"Experience">>, <<"e2">>)) }

\* data.filter((row) => row.Experience === experienceValue)
OfExperience(rows, experience) ==
    LET Matches(row) == PropGet(row, "Experience") = Str(experience)
    IN  SelectSeq(rows, Matches)

EnrolledInfo(fields) ==
    Obj(<< <<"studentInformation", Obj(<< <<"enrolledUHInfo", Obj(fields)>> >>)>> >>)

\* Entry documents of the store.
EntryDocs ==
    { Obj(<< <<"studentInformation",
               Obj(<< <<"enrolledUHInfo",
                        Obj(<< <<"expectedGraduationYear", Num(2025)>>,
                               <<"majors", Arr(<<Str("CS"), Str("Math")>>)>>,
                               <<"honorsMinors", Arr(<<Str("Data")>>)>>,
                               <<"otherMinors", Str("Art")>>,
                               <<"livingOnCampus", Bool(TRUE)>>,
                               <<"honorsCollegeAffiliatedStatus", Bool(FALSE)>> >>)>>,
                      <<"communityServiceInfo", Obj(<< <<"serviceStatus", Bool(TRUE)>> >>)>>,
                      <<"graduateProfessionalSchool",
                        Obj(<< <<"programGradProType",
                                 Obj(<< <<"id", Str("g1")>>,
                                        <<"label", Str("Masters of Science")>>,
                                        <<"checked", Bool(TRUE)>> >>)>> >>)>> >>)>> >>),
      EnrolledInfo(<< <<"expectedGraduationYear", Str("2024")>>,
                      <<"majors", Str(" CS ")>>,
                      <<"livingOnCampus", Null>> >>),
      Obj(<< <<"studentInformation", Str("n/a")>> >>) }

\* What a $count stage returns: nothing, or one document with the count.
CountResults == {<<>>} \cup {<<n>> : n \in 1..MaxFetched}

\* The handler reaches out of itself.
Did(what) == effects' = effects \cup what

ReceiveRequest ==
    /\ pc = "idle"
    /\ req' \in Requests
    /\ pc' = "received"
    /\ UNCHANGED <<helperVars, openBrowsers, effects, filteredEntry, agg, templateData, res, today, run, previous>>

\* res.status(status).json({ error: body, details }), or res.download for 200
Respond(status, body, details) ==
    /\ res' = [status |-> status, body |-> body, details |-> details]
    /\ pc' = "done"

\* if (!sessionValue) return res.status(400).json(...)
RejectSession ==
    /\ pc = "received"
    /\ sessionValue = ""
    /\ Respond(400, "session is required", "")
    /\ UNCHANGED <<helperVars, openBrowsers, effects, filteredEntry, agg, req, templateData, today, run, previous>>

\* if (!experienceValue) return res.status(400).json(...)
RejectExperience ==
    /\ pc = "received"
    /\ sessionValue # ""
    /\ experienceValue = ""
    /\ Respond(400, "experience is required", "")
    /\ UNCHANGED <<helperVars, openBrowsers, effects, filteredEntry, agg, req, templateData, today, run, previous>>

\* The guard if only the session were required.
ValidatedSessionOnly == pc = "received" /\ sessionValue # ""

Validated == pc = "received" /\ sessionValue # "" /\ experienceValue # ""

\* The profile branch up to the end of Promise.all: the store answers.  The
\* same request sent again meets the same store.
FetchProfile ==
    /\ Validated
    /\ req.reportType = Str("profile")
    /\ IF run = 1
       THEN /\ filteredEntry' \in UpTo(EntryDocs, MaxFetched)
            /\ agg' \in CountResults \X CountResults
       ELSE UNCHANGED <<filteredEntry, agg>>
    /\ pc' = "fetchedProfile"
    /\ Did({"connect", "fetch"})
    /\ UNCHANGED <<helperVars, openBrowsers, req, templateData, res, today, run, previous>>

\* getMongoDb or a query rejects: the catch block answers.
FetchProfileFails ==
    /\ Validated
    /\ req.reportType = Str("profile")
    /\ Respond(500, "Failed to generate report", "store unavailable")
    /\ Did({"connect"})
    /\ UNCHANGED <<helperVars, openBrowsers, filteredEntry, agg, req, templateData, today, run, previous>>

AssembleProfile ==
    /\ pc = "fetchedProfile"
    /\ templateData' = ProfileBundle
    /\ pc' = "assembled"
    /\ UNCHANGED <<helperVars, openBrowsers, effects, filteredEntry, agg, req, res, today, run, previous>>

\* The else branch: one of the three CSV files does not exist.
GrowthFilesMissing ==
    /\ Validated
    /\ req.reportType # Str("profile")
    /\ Respond(500, "Growth report data files are missing.", "")
    /\ UNCHANGED <<helperVars, openBrowsers, effects, filteredEntry, agg, req, templateData, today, run, previous>>

\* The else branch: the three files are read and filtered by experience.  The
\* same request sent again meets the same files.
ReadCsv ==
    /\ Validated
    /\ req.reportType # Str("profile")
    /\ IF run = 1
       THEN \E goalData \in UpTo(CsvGoalRows, MaxFetched),
               entryData \in UpTo(CsvEntryRows, MaxFetched),
               exitData \in UpTo(CsvExitRows, MaxFetched) :
                /\ filteredGoals' = OfExperience(goalData, experienceValue)
                /\ filteredEntry' = OfExperience(entryData, experienceValue)
                /\ filteredExit' = OfExperience(exitData, experienceValue)
       ELSE UNCHANGED <<filteredGoals, filteredEntry, filteredExit>>
    /\ pc' = "fetchedGrowth"
    /\ Did({"fetch"})
    /\ UNCHANGED <<distVars, expVars, mongoVars, openBrowsers, agg, req, templateData, res, today, run, previous>>

\* readCSV rejects: the catch block answers.
ReadCsvFails ==
    /\ Validated
    /\ req.reportType # Str("profile")
    /\ Respond(500, "Failed to generate report", "read failed")
    /\ Did({"fetch"})
    /\ UNCHANGED <<helperVars, openBrowsers, filteredEntry, agg, req, templateData, today, run, previous>>

\* The rest of the else branch.  A TypeError thrown on the way reaches the
\* catch block, which answers 500.
AssembleGrowth ==
    /\ pc = "fetchedGrowth"
    /\ IF GrowthThrows
       THEN /\ Respond(500, "Failed to generate report", trimIsNotAFunction)
            /\ UNCHANGED templateData
       ELSE /\ templateData' = GrowthBundle
            /\ pc' = "assembled"
            /\ UNCHANGED res
    /\ UNCHANGED <<helperVars, openBrowsers, effects, filteredEntry, agg, req, today, run, previous>>

\* reportType === "profile" ? profile_report.hbs : growth_report.hbs
templatePath ==
    IF req.reportType = Str("profile") THEN "./templates/profile_report.hbs"
    ELSE "./templates/growth_report.hbs"

\* fs.readFileSync, handlebars.compile and template(templateData) succeed.
RenderHtml ==
    /\ pc = "assembled"
    /\ pc' = "rendered"
    /\ Did({"render"})
    /\ UNCHANGED <<helperVars, openBrowsers, filteredEntry, agg, req, templateData, res, today,
                   run, previous>>

\* Reading or compiling the template throws: the catch block answers.
RenderFails ==
    /\ pc = "assembled"
    /\ Respond(500, "Failed to generate report", "render failed")
    /\ UNCHANGED <<helperVars, openBrowsers, effects, filteredEntry, agg, req, templateData,
                   today, run, previous>>

\* await puppeteer.launch(...) resolves with a browser.
LaunchBrowser ==
    /\ pc = "rendered"
    /\ pc' = "launched"
    /\ openBrowsers' = openBrowsers + 1
    /\ Did({"launch"})
    /\ UNCHANGED <<helperVars, filteredEntry, agg, req, templateData, res, today, run, previous>>

\* await puppeteer.launch(...) rejects: no browser, the catch block answers.
LaunchFails ==
    /\ pc = "rendered"
    /\ Respond(500, "Failed to generate report", "launch failed")
    /\ UNCHANGED <<helperVars, openBrowsers, effects, filteredEntry, agg, req, templateData,
                   today, run, previous>>

\* browser.newPage(), page.setContent(html) and page.pdf({ path }) resolve.
PrintPdf ==
    /\ pc = "launched"
    /\ pc' = "printed"
    /\ Did({"pdf"})
    /\ UNCHANGED <<helperVars, openBrowsers, filteredEntry, agg, req, templateData, res, today,
                   run, previous>>

\* One of the three rejects: control leaves the try block for the catch
\* block, which answers; browser.close() is not reached.
PageFails ==
    /\ pc = "launched"
    /\ \E step \in {"newPage failed", "setContent failed", "pdf failed"} :
            Respond(500, "Failed to generate report", step)
    /\ UNCHANGED <<helperVars, openBrowsers, effects, filteredEntry, agg, req, templateData,
                   today, run, previous>>

\* await browser.close(), then res.download(filePath, fileName).
CloseAndSend ==
    /\ pc = "printed"
    /\ openBrowsers' = openBrowsers - 1
    /\ Did({"close"})
    /\ Respond(200, templatePath, "")
    /\ UNCHANGED <<helperVars, filteredEntry, agg, req, templateData, today, run, previous>>

\* The client sends the same request again; the stores have not changed.
SendAgain ==
    /\ pc = "done"
    /\ run = 1
    /\ templateData # NoBundle
    /\ previous' = templateData
    /\ templateData' = NoBundle
    /\ res' = NoResponse
    /\ run' = 2
    /\ pc' = "received"
    /\ effects' = {}
    /\ UNCHANGED <<helperVars, openBrowsers, filteredEntry, agg, req, today>>

\* Midnight passes between two requests; the handler reads the clock only
\* when it assembles a bundle.
Tick ==
    /\ today < MaxDays
    /\ pc = "done"
    /\ today' = today + 1
    /\ UNCHANGED <<helperVars, openBrowsers, effects, filteredEntry, agg, pc, req, templateData, res, run, previous>>

ReportInit ==
    /\ data = <<>>
    /\ call = [fn |-> "generate-report"]
    /\ result = NoResult
    /\ filteredGoals = <<>>
    /\ filteredExit = <<>>
    /\ HandlerIdle
    /\ ExperiencesIdle
    /\ MongoIdle

ReportNext ==
    \/ ReceiveRequest
    \/ RejectSession
    \/ RejectExperience
    \/ FetchProfile
    \/ FetchProfileFails
    \/ AssembleProfile
    \/ GrowthFilesMissing
    \/ ReadCsv
    \/ ReadCsvFails
    \/ AssembleGrowth
    \/ RenderHtml
    \/ RenderFails
    \/ LaunchBrowser
    \/ LaunchFails
    \/ PrintPdf
    \/ PageFails
    \/ CloseAndSend
    \/ SendAgain
    \/ Tick

SpecReport == ReportInit /\ [][ReportNext]_vars

\* What the handler does once it holds a browser: each await settles and the
\* event loop resumes the handler.
AfterLaunch == PrintPdf \/ PageFails \/ CloseAndSend

\* One request, from its arrival to its response.
OneRequest ==
    \/ ReceiveRequest
    \/ RejectSession
    \/ RejectExperience
    \/ FetchProfile
    \/ FetchProfileFails
    \/ AssembleProfile
    \/ GrowthFilesMissing
    \/ ReadCsv
    \/ ReadCsvFails
    \/ AssembleGrowth
    \/ RenderHtml
    \/ RenderFails
    \/ LaunchBrowser
    \/ LaunchFails
    \/ PrintPdf
    \/ PageFails
    \/ CloseAndSend

\* One request under a fair event loop: once the handler holds a browser it
\* is resumed until it has answered.
FairReport == ReportInit /\ [][OneRequest]_vars /\ WF_vars(AfterLaunch)

\* ----------------------------------------------------------- getMongoDb

\* A call that has not started.
NotStarted == [pc |-> "idle", awaits |-> 0, client |-> 0, error |-> ""]

MongoInit ==
    /\ data = <<>>
    /\ call = [fn |-> "getMongoDb"]
    /\ result = NoResult
    /\ filteredGoals = <<>>
    /\ filteredExit = <<>>
    /\ HandlerIdle
    /\ ExperiencesIdle
    /\ mongodbUri \in {Undefined, Str("mongodb://db")}
    /\ mongoClient = 0
    /\ mongoClientPromise = 0
    /\ driver = [clients |-> 0, connects |-> 0, promises |-> <<>>]
    /\ callers = [p \in 1..MaxCallers |-> NotStarted]

\* The test if it asked for a connected client and not for a promise.
NoClientConnected ==
    \/ mongoClientPromise = 0
    \/ driver.promises[mongoClientPromise] # "fulfilled"

\* if (!mongoClientPromise)
NoClientPromise == mongoClientPromise = 0

\* The call runs from its start to its await, without interruption: the uri
\* test, the client and its connect() if there is no promise yet, then
\* await mongoClientPromise on the promise the variable holds at that moment.
Enter(p) ==
    /\ callers[p].pc = "idle"
    /\ IF ~ToBoolean(mongodbUri)
       THEN /\ callers' = [callers EXCEPT ![p] = [@ EXCEPT !.pc = "threw",
                                                          !.error = "Missing MONGODB_URI"]]
            /\ UNCHANGED <<mongoClient, mongoClientPromise, driver>>
       ELSE IF NoClientPromise
       THEN /\ mongoClient' = driver.clients + 1
            /\ mongoClientPromise' = Len(driver.promises) + 1
            /\ driver' = [clients |-> driver.clients + 1,
                          connects |-> driver.connects + 1,
                          promises |-> Append(driver.promises, "pending")]
            /\ callers' = [callers EXCEPT ![p] = [@ EXCEPT !.pc = "awaiting",
                                                          !.awaits = mongoClientPromise']]
       ELSE /\ callers' = [callers EXCEPT ![p] = [@ EXCEPT !.pc = "awaiting",
                                                          !.awaits = mongoClientPromise]]
            /\ UNCHANGED <<mongoClient, mongoClientPromise, driver>>
    /\ UNCHANGED <<distVars, rowVars, handlerVars, expVars, mongodbUri>>

\* The server answers: the promise of a connect() is fulfilled with its client.
Connected(k) ==
    /\ driver.promises[k] = "pending"
    /\ driver' = [driver EXCEPT !.promises[k] = "fulfilled"]
    /\ UNCHANGED <<distVars, rowVars, handlerVars, expVars, mongodbUri, mongoClient,
                   mongoClientPromise, callers>>

\* The server cannot be reached: the promise of a connect() is rejected.
ConnectFailed(k) ==
    /\ driver.promises[k] = "pending"
    /\ driver' = [driver EXCEPT !.promises[k] = "rejected"]
    /\ UNCHANGED <<distVars, rowVars, handlerVars, expVars, mongodbUri, mongoClient,
                   mongoClientPromise, callers>>

\* The await settles: return client.db(getMongoDbName()), or the rejection
\* is thrown to the caller.
Resume(p) ==
    /\ callers[p].pc = "awaiting"
    /\ driver.promises[callers[p].awaits] # "pending"
    /\ callers' = [callers EXCEPT ![p] =
            IF driver.promises[callers[p].awaits] = "fulfilled"
            THEN [@ EXCEPT !.pc = "returned", !.client = callers[p].awaits]
            ELSE [@ EXCEPT !.pc = "threw", !.error = "connect failed"]]
    /\ UNCHANGED <<distVars, rowVars, handlerVars, expVars, mongodbUri, mongoClient,
                   mongoClientPromise, driver>>

\* The request of a finished call is over; a new request may call.
Leave(p) ==
    /\ callers[p].pc \in {"returned", "threw"}
    /\ callers' = [callers EXCEPT ![p] = NotStarted]
    /\ UNCHANGED <<distVars, rowVars, handlerVars, expVars, mongodbUri, mongoClient,
                   mongoClientPromise, driver>>

MongoNext ==
    \/ \E p \in 1..MaxCallers : Enter(p)
    \/ \E p \in 1..MaxCallers : Leave(p)
    \/ \E k \in 1..MaxCallers : k <= Len(driver.promises) /\ Connected(k)
    \/ \E k \in 1..MaxCallers : k <= Len(driver.promises) /\ ConnectFailed(k)
    \/ \E p \in 1..MaxCallers : Resume(p)

SpecMongo == MongoInit /\ [][MongoNext]_vars

\* ------------------------------------------------ GET /api/experiences

\* .replace(/\s+/g, " "): every run of white space becomes one space.
RECURSIVE CollapseSpaces(_)
CollapseSpaces(s) ==
    IF Len(s) = 0 THEN ""
    ELSE IF IsWhiteSpace(CharAt(s, 1))
    THEN " " \o CollapseSpaces(TrimStart(s))
    ELSE CharAt(s, 1) \o CollapseSpaces(SubSeq(s, 2, Len(s)))

\* expObj.name === undefined || expObj.name === null ? "" : String(expObj.name).trim()
TrimmedOrEmpty(v) == IF IsNullish(v) THEN "" ELSE Trim(JsString(v))

\* if (!label) return null
NoExperience == [null |-> TRUE]

\* The callback of instances.map: null for an empty label, else { id, label }.
ExperienceOf(doc) ==
    LET expObj == IF ToBoolean(PropGet(doc, "experience")) THEN PropGet(doc, "experience")
                  ELSE Obj(<<>>)
        id == IF ToBoolean(PropGet(expObj, "id")) THEN JsString(PropGet(expObj, "id"))
              ELSE JsString(PropGet(doc, "_id"))
        name == TrimmedOrEmpty(PropGet(expObj, "name"))
        category == TrimmedOrEmpty(PropGet(expObj, "category"))
        label == Trim(CollapseSpaces(name \o " " \o category))
    IN  IF label = "" THEN NoExperience ELSE [id |-> id, label |-> label]

\* instances.map(...).filter(Boolean)
experiences(docs) ==
    LET mapped == [i \in 1..Len(docs) |-> ExperienceOf(docs[i])]
        Kept(e) == e # NoExperience
    IN  SelectSeq(mapped, Kept)

\* uniqueById: a Map filled in order, the first experience of an id kept.
RECURSIVE uniqueById(_, _)
uniqueById(list, kept) ==
    IF Len(list) = 0 THEN kept
    ELSE uniqueById(Tail(list),
                    IF \E i \in 1..Len(kept) : kept[i].id = list[1].id THEN kept
                    ELSE Append(kept, list[1]))

\* The collation order of the characters of a label: the space, then the
\* letters, a capital with its small letter.
Collation == " abcdefghijklmnopqrstuvwxyz"

Weight(c) ==
    IF \E i \in 1..Len(Collation) : CharAt(Collation, i) = LowerChar(c)
    THEN CHOOSE i \in 1..Len(Collation) : CharAt(Collation, i) = LowerChar(c)
    ELSE 0

\* a.localeCompare(b) on labels of letters and spaces: negative, 0 or positive.
RECURSIVE localeCompare(_, _)
localeCompare(a, b) ==
    IF Len(a) = 0 /\ Len(b) = 0 THEN 0
    ELSE IF Len(a) = 0 THEN -1
    ELSE IF Len(b) = 0 THEN 1
    ELSE IF Weight(CharAt(a, 1)) < Weight(CharAt(b, 1)) THEN -1
    ELSE IF Weight(CharAt(a, 1)) > Weight(CharAt(b, 1)) THEN 1
    ELSE localeCompare(SubSeq(a, 2, Len(a)), SubSeq(b, 2, Len(b)))

RECURSIVE InsertByLabel(_, _)
InsertByLabel(list, e) ==
    IF Len(list) = 0 THEN <<e>>
    ELSE IF localeCompare(e.label, list[1].label) < 0 THEN <<e>> \o list
    ELSE <<list[1]>> \o InsertByLabel(Tail(list), e)

\* const sorted = Array.from(uniqueById.values()).sort(...): computed by the
\* handler, and not what it sends.
RECURSIVE sorted(_)
sorted(list) ==
    IF Len(list) = 0 THEN <<>>
    ELSE InsertByLabel(sorted(SubSeq(list, 1, Len(list) - 1)), list[Len(list)])

\* The requests: MONGODB_URI set or not, the sessionId query parameter.
ExperienceRequests ==
    [uri : {Undefined, Str("mongodb://db")}, sessionId : {Undefined, Str(""), Str("s1")}]

Instance(id, fields) == Obj(<< <<"_id", Str(id)>>, <<"experience", Obj(fields)>> >>)

\* Documents of expInstanceData as projected by the query.
InstanceDocs ==
    { Instance("i1", << <<"id", Str("x1")>>, <<"name", Str(" Data ")>>,
                        <<"category", Str("Course")>> >>),
      Instance("i2", << <<"id", Str("x1")>>, <<"name", Str("Alpha")>>, <<"category", Null>> >>),
      Instance("i3", << <<"id", Str("x2")>>, <<"name", Str("Alpha \t Lab")>> >>),
      Instance("i4", << <<"name", Str("  ")>>, <<"category", Str("")>> >>),
      Obj(<< <<"_id", Str("i5")>> >>),
      Instance("i6", << <<"name", Str("Beta")>> >>) }

ExperiencesInit ==
    /\ data = <<>>
    /\ call = [fn |-> "experiences"]
    /\ result = NoResult
    /\ filteredGoals = <<>>
    /\ filteredExit = <<>>
    /\ HandlerIdle
    /\ MongoIdle
    /\ expReq \in ExperienceRequests
    /\ instances = <<>>
    /\ expRes = NoResponse

Unanswered == expRes = NoResponse

\* The store holds one more active instance of the session, under its own _id.
StoreInstance ==
    /\ Unanswered
    /\ Len(instances) < MaxInstances
    /\ \E doc \in InstanceDocs :
            /\ \A i \in 1..Len(instances) : PropGet(instances[i], "_id") # PropGet(doc, "_id")
            /\ instances' = Append(instances, doc)
    /\ UNCHANGED <<distVars, rowVars, handlerVars, mongoVars, expReq, expRes>>

\* if (!process.env.MONGODB_URI) return res.status(500).json(...)
NotConfigured ==
    /\ Unanswered
    /\ ~ToBoolean(expReq.uri)
    /\ expRes' = [status |-> 500, body |-> "MongoDB is not configured for experiences.",
                  details |-> ""]
    /\ UNCHANGED <<distVars, rowVars, handlerVars, mongoVars, expReq, instances>>

\* if (!sessionId) return res.status(400).json(...)
MissingSession ==
    /\ Unanswered
    /\ ToBoolean(expReq.uri)
    /\ ~ToBoolean(expReq.sessionId)
    /\ expRes' = [status |-> 400, body |-> "sessionId query parameter is required",
                  details |-> ""]
    /\ UNCHANGED <<distVars, rowVars, handlerVars, mongoVars, expReq, instances>>

Listable == Unanswered /\ ToBoolean(expReq.uri) /\ ToBoolean(expReq.sessionId)

\* The query resolves and the handler answers: return res.json({ experiences }).
ListExperiences ==
    /\ Listable
    /\ expRes' = [status |-> 200, experiences |-> experiences(instances)]
    /\ UNCHANGED <<distVars, rowVars, handlerVars, mongoVars, expReq, instances>>

\* getMongoDb or the query rejects: the catch block answers.
ListFails ==
    /\ Listable
    /\ expRes' = [status |-> 500, body |-> "Failed to load experiences",
                  details |-> "store unavailable"]
    /\ UNCHANGED <<distVars, rowVars, handlerVars, mongoVars, expReq, instances>>

ExperiencesNext ==
    \/ StoreInstance
    \/ NotConfigured
    \/ MissingSession
    \/ ListExperiences
    \/ ListFails

SpecExperiences == ExperiencesInit /\ [][ExperiencesNext]_vars

\* ------------------------------------------- the helpers on entry documents

\* No helper has returned yet.
NotCalled == [returned |-> FALSE, threw |-> FALSE, raws |-> <<>>, dist |-> <<>>, total |-> 0]

\* const raw = getNestedValue(row, field), row by row.
Resolved(rows, path) == [i \in 1..Len(rows) |-> getNestedValue(rows[i], path)]

\* The helper calls of the profile branch.
Calls ==
    { [fn |-> "calculateDistribution",
       path |-> "studentInformation.enrolledUHInfo.expectedGraduationYear",
       trueLabel |-> "", falseLabel |-> ""],
      [fn |-> "calculateDistributionFromArray",
       path |-> "studentInformation.enrolledUHInfo.majors",
       trueLabel |-> "", falseLabel |-> ""],
      [fn |-> "calculateBooleanDistribution",
       path |-> "studentInformation.enrolledUHInfo.livingOnCampus",
       trueLabel |-> "On Campus", falseLabel |-> "Off Campus"],
      [fn |-> "calculateBooleanDistribution",
       path |-> "studentInformation.communityServiceInfo.serviceStatus",
       trueLabel |-> "Yes", falseLabel |-> "No"] }

\* The document { k1: { k2: ... { kn: leaf } } } for the keys k1..kn.
RECURSIVE Nest(_, _)
Nest(parts, leaf) ==
    IF Len(parts) = 0 THEN leaf
    ELSE Obj(<< <<parts[1], Nest(Tail(parts), leaf)>> >>)

\* What an entry document may hold at the end of the path of each helper call.
RawValues(fn) ==
    CASE fn = "calculateDistribution" ->
            { Null, Str("A"), Str(" A "), Str("B"), Str(""), Str("  "), Str("2025"),
              Num(2024), Str("__proto__") }
      [] fn = "calculateDistributionFromArray" ->
            { Null, Str("A"), Str("B"), Str("2025"), Str("__proto__"),
              Arr(<<Str("A"), Str("B"), Str("A")>>),
              Arr(<<Null, Str("  "), Num(2024)>>) }
      [] fn = "calculateBooleanDistribution" ->
            { Null, Str(""), Str("A"), Bool(FALSE), Bool(TRUE) }

\* Entry documents: the path absent, cut short by a string or a number, or
\* complete with a raw value at its end.
DocsFor(c) ==
    LET parts == Split(c.path)
    IN  { Obj(<<>>),
          Nest(SubSeq(parts, 1, 1), Str("n/a")),
          Nest(SubSeq(parts, 1, 2), Num(7)) }
        \cup { Nest(parts, raw) : raw \in RawValues(c.fn) }

Docs == [c \in Calls |-> DocsFor(c)]

DistInit ==
    /\ data = <<>>
    /\ call \in Calls
    /\ result = NotCalled
    /\ filteredGoals = <<>>
    /\ filteredExit = <<>>
    /\ HandlerIdle
    /\ ExperiencesIdle
    /\ MongoIdle

\* The store returns one more entry document.
AddRow ==
    /\ ~result.returned
    /\ Len(data) < MaxRows
    /\ \E doc \in Docs[call] : data' = Append(data, doc)
    /\ UNCHANGED <<call, result, rowVars, handlerVars, expVars, mongoVars>>

\* What the call leaves behind: the values resolved row by row, and either
\* the distribution returned with the final value of the local total, or the
\* exception thrown out of the forEach callback.
Returned(raws, tally) ==
    IF \E i \in 1..Len(raws) : raws[i] = TypeError
    THEN [returned |-> TRUE, threw |-> TRUE, raws |-> raws, dist |-> <<>>, total |-> 0]
    ELSE [returned |-> TRUE, threw |-> FALSE, raws |-> raws,
          dist |-> Rank(tally), total |-> tally.total]

CallCalculateDistribution ==
    /\ ~result.returned
    /\ call.fn = "calculateDistribution"
    /\ result' = Returned(Resolved(data, call.path),
                          ScalarTally(data, call.path, EmptyTally))
    /\ UNCHANGED <<data, call, rowVars, handlerVars, expVars, mongoVars>>

CallCalculateDistributionFromArray ==
    /\ ~result.returned
    /\ call.fn = "calculateDistributionFromArray"
    /\ result' = Returned(Resolved(data, call.path),
                          ArrayTally(data, call.path, EmptyTally))
    /\ UNCHANGED <<data, call, rowVars, handlerVars, expVars, mongoVars>>

CallCalculateBooleanDistribution ==
    /\ ~result.returned
    /\ call.fn = "calculateBooleanDistribution"
    /\ result' = Returned(Resolved(data, call.path),
                          BooleanTally(data, call.path, call.trueLabel, call.falseLabel,
                                       BooleanStart(call.trueLabel, call.falseLabel)))
    /\ UNCHANGED <<data, call, rowVars, handlerVars, expVars, mongoVars>>

DistNext ==
    \/ AddRow
    \/ CallCalculateDistribution
    \/ CallCalculateDistributionFromArray
    \/ CallCalculateBooleanDistribution

SpecDist == DistInit /\ [][DistNext]_vars

\* ---------------------------------------------- the helpers on CSV rows

\* The helper calls of the growth branch on the filtered rows.
GrowthCalls ==
    { [fn |-> "calculateGrowthData",
       expectedField |-> "Teamwork Expected", achievedField |-> "Teamwork Achieved"],
      [fn |-> "netPromoterScores", expectedField |-> "", achievedField |-> ""],
      [fn |-> "activitiesScores", expectedField |-> "", achievedField |-> ""],
      [fn |-> "progressTowardsGoals", expectedField |-> "", achievedField |-> ""],
      [fn |-> "experienceConnection", expectedField |-> "", achievedField |-> ""] }

\* A CSV row with the given cells, column by column; a column may be missing.
Row(columns, cells) == Obj([i \in 1..Len(columns) |-> <<columns[i], Str(cells[i])>>])

\* The goal-setting rows a call may meet.
GoalRowsFor(c) ==
    IF c.fn = "calculateGrowthData"
    THEN { Row(<<c.expectedField>>, <<"None">>), Row(<<c.expectedField>>, <<"A lot">>),
           Obj(<<>>) }
    ELSE {}

\* The exit-form rows a call may meet.
ExitRowsFor(c) ==
    CASE c.fn = "calculateGrowthData" ->
            { Row(<<c.achievedField>>, <<"A lot">>), Row(<<c.achievedField>>, <<"Moderate">>),
              Row(<<c.achievedField>>, <<"Some">>) }
      [] c.fn = "netPromoterScores" ->
            { Row(npsFields, <<"Likely", "Likely", "Likely", "Likely">>),
              Row(npsFields, <<"Extremely likely", "Unlikely", "likely", "">>),
              Row(SubSeq(npsFields, 1, 2), <<"Neutral", "Extremely likely">>) }
      [] c.fn = "activitiesScores" ->
            { Row(activityFields, <<"Yes", "Yes", "Yes", "Yes", "Yes", "Yes">>),
              Row(activityFields, <<"No", "Yes", "yes", "", " Yes", "Yes">>),
              Row(SubSeq(activityFields, 1, 2), <<"No", "No">>) }
      [] c.fn = "progressTowardsGoals" ->
            { Row(progressFields, <<"Some", "Lots", "some">>),
              Row(progressFields, <<"None", "", "Lots">>),
              Row(SubSeq(progressFields, 2, 3), <<"Little", "Partly">>) }
      [] c.fn = "experienceConnection" ->
            { Row(connectionFields, <<"Partly", "Largely", "None">>),
              Row(connectionFields, <<"Largely", "largely", "">>),
              Row(SubSeq(connectionFields, 2, 2), <<"Some">>) }

GoalRows == [c \in GrowthCalls |-> GoalRowsFor(c)]

ExitRows == [c \in GrowthCalls |-> ExitRowsFor(c)]

GrowthInit ==
    /\ data = <<>>
    /\ call \in GrowthCalls
    /\ result = NoResult
    /\ filteredGoals = <<>>
    /\ filteredExit = <<>>
    /\ HandlerIdle
    /\ ExperiencesIdle
    /\ MongoIdle

\* goalData.filter(...) keeps one more row.
AddGoalRow ==
    /\ ~result.returned
    /\ Len(filteredGoals) < MaxRows
    /\ \E row \in GoalRows[call] : filteredGoals' = Append(filteredGoals, row)
    /\ UNCHANGED <<data, call, result, filteredExit, handlerVars, expVars, mongoVars>>

\* exitData.filter(...) keeps one more row.
AddExitRow ==
    /\ ~result.returned
    /\ Len(filteredExit) < (IF call.fn = "calculateGrowthData" THEN MaxRows ELSE MaxExitRows)
    /\ \E row \in ExitRows[call] : filteredExit' = Append(filteredExit, row)
    /\ UNCHANGED <<data, call, result, filteredGoals, handlerVars, expVars, mongoVars>>

CallCalculateGrowthData ==
    /\ ~result.returned
    /\ call.fn = "calculateGrowthData"
    /\ result' = [returned |-> TRUE,
                  value |-> calculateGrowthData(filteredGoals, filteredExit,
                                                call.expectedField, call.achievedField)]
    /\ UNCHANGED <<data, call, rowVars, handlerVars, expVars, mongoVars>>

ComputeNetPromoterScores ==
    /\ ~result.returned
    /\ call.fn = "netPromoterScores"
    /\ result' = [returned |-> TRUE, value |-> netPromoterScores(filteredExit)]
    /\ UNCHANGED <<data, call, rowVars, handlerVars, expVars, mongoVars>>

ComputeActivitiesScores ==
    /\ ~result.returned
    /\ call.fn = "activitiesScores"
    /\ result' = [returned |-> TRUE, value |-> activitiesScores(filteredExit)]
    /\ UNCHANGED <<data, call, rowVars, handlerVars, expVars, mongoVars>>

ComputeProgressTowardsGoals ==
    /\ ~result.returned
    /\ call.fn = "progressTowardsGoals"
    /\ result' = [returned |-> TRUE, value |-> progressTowardsGoals(filteredExit)]
    /\ UNCHANGED <<data, call, rowVars, handlerVars, expVars, mongoVars>>

ComputeExperienceConnection ==
    /\ ~result.returned
    /\ call.fn = "experienceConnection"
    /\ result' = [returned |-> TRUE, value |-> experienceConnection(filteredExit)]
    /\ UNCHANGED <<data, call, rowVars, handlerVars, expVars, mongoVars>>

GrowthNext ==
    \/ AddGoalRow
    \/ AddExitRow
    \/ CallCalculateGrowthData
    \/ ComputeNetPromoterScores
    \/ ComputeActivitiesScores
    \/ ComputeProgressTowardsGoals
    \/ ComputeExperienceConnection

SpecGrowth == GrowthInit /\ [][GrowthNext]_vars

\* ------------------------------------------------- claims on the helpers

RECURSIVE SumCounts(_)
SumCounts(dist) == IF Len(dist) = 0 THEN 0 ELSE dist[1].count + SumCounts(Tail(dist))

\* The values an array raw holds, or the scalar raw by itself.
ItemsOf(raw) == IF IsArray(raw) THEN raw[2] ELSE <<raw>>

\* The labels a scan of the resolved values counts, in scan order; with
\* expand, the elements of an array value are scanned one by one.
RECURSIVE CountedLabels(_, _)
CountedLabels(raws, expand) ==
    IF Len(raws) = 0 THEN <<>>
    ELSE LET items == IF expand THEN ItemsOf(raws[1]) ELSE <<raws[1]>>
             labels == [i \in 1..Len(items) |-> Normalize(items[i])]
             IsCounted(l) == l # ""
         IN  SelectSeq(labels, IsCounted) \o CountedLabels(Tail(raws), expand)

FirstSeen(label, seen) == CHOOSE i \in 1..Len(seen) : seen[i] = label /\ \A j \in 1..(i - 1) : seen[j] # label

Ranked == result.returned /\ ~result.threw

\* C1: in the output of the three helpers the entry counts sum to the total of
\* counted values, every percentage is an integer in 0..100, and with a total
\* of 0 every percentage is 0.
C1_CountsSumToTotal ==
    Ranked =>
        /\ SumCounts(result.dist) = result.total
        /\ \A i \in 1..Len(result.dist) : result.dist[i].percentage \in 0..100
        /\ (result.total = 0 => \A i \in 1..Len(result.dist) : result.dist[i].percentage = 0)

\* C2: a distribution of calculateDistribution / calculateDistributionFromArray
\* is sorted by descending percentage, and entries of equal percentage appear in
\* the order in which their labels were first seen in the scan of the records.
C2_DescendingFirstSeen ==
    (Ranked /\ call.fn \in {"calculateDistribution", "calculateDistributionFromArray"}) =>
        LET seen == CountedLabels(result.raws, call.fn = "calculateDistributionFromArray")
            dist == result.dist
        IN  \A i, j \in 1..Len(dist) :
                i < j =>
                    /\ dist[i].percentage >= dist[j].percentage
                    /\ (dist[i].percentage = dist[j].percentage =>
                            FirstSeen(dist[i].label, seen) < FirstSeen(dist[j].label, seen))

Occurrences(label, seen) == Cardinality({i \in 1..Len(seen) : seen[i] = label})

CountOf(label, dist) ==
    IF \E i \in 1..Len(dist) : dist[i].label = label
    THEN dist[CHOOSE i \in 1..Len(dist) : dist[i].label = label].count
    ELSE -1

BooleanCall == Ranked /\ call.fn = "calculateBooleanDistribution"

Present == {i \in 1..Len(result.raws) : ~IsNullish(result.raws[i])}

Truthy == {i \in Present : ToBoolean(result.raws[i])}

\* C5: calculateBooleanDistribution returns exactly one entry per label; a
\* record whose field is null or undefined counts for neither label nor for the
\* total, every other record counts once, under the truthy or the falsy label;
\* with the field absent everywhere both entries have count 0 and percentage 0.
C5_BooleanDistribution ==
    BooleanCall =>
        LET dist == result.dist
        IN  /\ Len(dist) = 2
            /\ {dist[1].label, dist[2].label} = {call.trueLabel, call.falseLabel}
            /\ CountOf(call.trueLabel, dist) = Cardinality(Truthy)
            /\ CountOf(call.falseLabel, dist) = Cardinality(Present \ Truthy)
            /\ result.total = Cardinality(Present)
            /\ (Present = {} =>
                    \A i \in 1..2 : dist[i].count = 0 /\ dist[i].percentage = 0)

\* C5 witness: a boolean call over an absent, a truthy and a falsy value.
C5_Witness ==
    /\ BooleanCall
    /\ Len(data) = 3
    /\ Cardinality(Present) = 2
    /\ Cardinality(Truthy) = 1

ArrayCall == Ranked /\ call.fn = "calculateDistributionFromArray"

C6_Example == <<Arr(<<Str("A"), Str("B"), Str("A")>>), Str("A")>>

\* C6: in array-expanding mode every element of an array value is normalized
\* and counted on its own (each entry counts the occurrences of its label among
\* the elements, the total counts every non-empty element), a scalar value is
\* counted as in scalar mode, and [A,B,A] with A gives A=3 (75), B=1 (25) of 4.
C6_ArrayExpansion ==
    ArrayCall =>
        LET seen == CountedLabels(result.raws, TRUE)
            dist == result.dist
        IN  /\ result.total = Len(seen)
            /\ \A i \in 1..Len(dist) : dist[i].count = Occurrences(dist[i].label, seen)
            /\ ((\A i \in 1..Len(result.raws) : ~IsArray(result.raws[i])) =>
                    dist = calculateDistribution(data, call.path))
            /\ (result.raws = C6_Example =>
                    /\ result.total = 4
                    /\ dist = << [label |-> "A", count |-> 3, percentage |-> 75],
                                 [label |-> "B", count |-> 1, percentage |-> 25] >>)

\* C6 witness: the call over the records [A,B,A] and A.
C6_Witness == ArrayCall /\ result.raws = C6_Example

\* The value at the end of the keys when every step is an own property of an
\* object, and Broken when a step meets a missing key or a value that is no
\* object.
Broken == <<"broken">>

RECURSIVE OwnPath(_, _)
OwnPath(v, parts) ==
    IF Len(parts) = 0 THEN v
    ELSE IF TypeOf(v) = "object" /\ HasOwn(v[2], parts[1])
    THEN OwnPath(OwnValue(v[2], parts[1]), Tail(parts))
    ELSE Broken

\* C7: getNestedValue walks the keys of the path left to right: it returns the
\* value at the end of the path when every step exists, and undefined, without
\* raising an error, when a step is missing or meets a value that is no mapping
\* (a string, a number) before the last key.
C7_NestedValueNeverThrows ==
    result.returned =>
        /\ ~result.threw
        /\ \A i \in 1..Len(data) :
              LET end == OwnPath(data[i], Split(call.path))
              IN  result.raws[i] = IF end = Broken THEN Undefined ELSE end

\* C7 witness: a record whose first key holds a string, resolved to undefined,
\* beside a record with the whole path.
C7_Witness ==
    /\ result.returned
    /\ \E i, j \in 1..Len(data) :
          /\ data[i] = Nest(SubSeq(Split(call.path), 1, 1), Str("n/a"))
          /\ result.raws[i] = Undefined
          /\ OwnPath(data[j], Split(call.path)) \notin {Broken, Undefined, Null}
          /\ result.raws[j] # Undefined

\* ------------------------------------------ claims on the growth helpers

\* pct is the integer nearest to 100 * m / n, the half rounded up.
IsRounded(pct, m, n) ==
    /\ pct \in 0..100
    /\ 2 * n * pct <= 200 * m + n
    /\ 200 * m + n < 2 * n * (pct + 1)

\* How many rows hold exactly the string text in the column.
RowsWith(rows, column, text) ==
    Cardinality({k \in 1..Len(rows) :
                    HasOwn(rows[k][2], column) /\ OwnValue(rows[k][2], column) = Str(text)})

AtLeastOne(n) == IF n > 0 THEN n ELSE 1

GrowthCall == result.returned /\ call.fn = "calculateGrowthData"

C3_Categories == <<"None", "Little", "Moderate", "A lot">>

\* C3: calculateGrowthData returns four rows in the order None, Little,
\* Moderate, A lot; expected and achieved are the rounded shares of the goal and
\* of the outcome records holding the category, over the raw record count (1
\* for an empty set); goals [None, A lot] with outcomes [A lot] give None 50/0,
\* Little 0/0, Moderate 0/0, A lot 50/100.
C3_GrowthRows ==
    GrowthCall =>
        LET rows == result.value
        IN  /\ Len(rows) = 4
            /\ \A i \in 1..4 :
                  /\ rows[i].category = C3_Categories[i]
                  /\ IsRounded(rows[i].expected,
                               RowsWith(filteredGoals, call.expectedField, C3_Categories[i]),
                               AtLeastOne(Len(filteredGoals)))
                  /\ IsRounded(rows[i].achieved,
                               RowsWith(filteredExit, call.achievedField, C3_Categories[i]),
                               AtLeastOne(Len(filteredExit)))

C3_ExampleGoals ==
    <<Row(<<"Teamwork Expected">>, <<"None">>), Row(<<"Teamwork Expected">>, <<"A lot">>)>>

C3_ExampleExit == <<Row(<<"Teamwork Achieved">>, <<"A lot">>)>>

\* C3 witness: the example of the claim, with its four rows.
C3_Witness ==
    /\ GrowthCall
    /\ filteredGoals = C3_ExampleGoals
    /\ filteredExit = C3_ExampleExit
    /\ result.value = << [category |-> "None", expected |-> 50, achieved |-> 0],
                         [category |-> "Little", expected |-> 0, achieved |-> 0],
                         [category |-> "Moderate", expected |-> 0, achieved |-> 0],
                         [category |-> "A lot", expected |-> 50, achieved |-> 100] >>

\* The rows whose column holds one of the affirmative strings.
Affirmative(rows, column, texts) ==
    {k \in 1..Len(rows) :
        /\ HasOwn(rows[k][2], column)
        /\ \E t \in texts : OwnValue(rows[k][2], column) = Str(t)}

ScoresAre(scores, rows, columns, texts) ==
    /\ Len(scores) = Len(columns)
    /\ \A i \in 1..Len(columns) :
          IF Len(rows) = 0 THEN scores[i].percentage = 0
          ELSE IsRounded(scores[i].percentage,
                         Cardinality(Affirmative(rows, columns[i], texts)), Len(rows))

\* C4: each likelihood and each activity score is the rounded share of the
\* exit records whose field holds an affirmative value, over all exit records,
\* and 0 for an empty record set (3 of 4 records give 75).
C4_LikelihoodScores ==
    /\ (result.returned /\ call.fn = "netPromoterScores") =>
            ScoresAre(result.value, filteredExit, npsFields, {"Likely", "Extremely likely"})
    /\ (result.returned /\ call.fn = "activitiesScores") =>
            ScoresAre(result.value, filteredExit, activityFields, {"Yes"})

\* C4 witness: four exit records, three of them affirmative in the first
\* likelihood field, scored 75.
C4_Witness ==
    /\ result.returned
    /\ call.fn = "netPromoterScores"
    /\ Len(filteredExit) = 4
    /\ Cardinality(Affirmative(filteredExit, npsFields[1], {"Likely", "Extremely likely"})) = 3
    /\ result.value[1].percentage = 75

\* -------------------------------------------------- claims on the handler

WithoutDate(bundle) == [bundle EXCEPT !.generatedDate = 0]

IsGrowthBundle(bundle) == "studentGrowth" \in DOMAIN bundle

IsProfileBundle(bundle) == "demographics" \in DOMAIN bundle

C9_UnknownReportTypeFails ==
    (pc # "idle" /\ req.reportType \notin {Str("profile"), Str("growth")})
        => (templateData = NoBundle /\ res.status # 200)

StartsWith(text, prefix) ==
    Len(text) >= Len(prefix) /\ SubSeq(text, 1, Len(prefix)) = prefix

\* The i-th score carries the i-th letter, the i-th description the same
\* letter and the percentage of the i-th score.
Lettered(scores, descriptions, n) ==
    /\ Len(scores) = n
    /\ Len(descriptions) = n
    /\ \A i \in 1..n :
          /\ scores[i].category = Letters[i]
          /\ descriptions[i].label = Letters[i]
          /\ StartsWith(descriptions[i].text, NatToStr(scores[i].percentage) \o "%")

\* C11: netPromoterScores has the 4 entries A..D and activitiesScores the 6
\* entries A..F, the i-th entry scoring the i-th configured field whatever the
\* percentages are, and the i-th description carries the same letter and the
\* percentage of the i-th score.
C11_LettersByPosition ==
    IsGrowthBundle(templateData) =>
        /\ Lettered(templateData.netPromoterScores, templateData.netPromoterDescriptions, 4)
        /\ Lettered(templateData.activitiesScores, templateData.activitiesDescriptions, 6)
        /\ ScoresAre(templateData.netPromoterScores, filteredExit, npsFields,
                     {"Likely", "Extremely likely"})
        /\ ScoresAre(templateData.activitiesScores, filteredExit, activityFields, {"Yes"})

\* C11 witness: a bundle whose last score is higher than its first, in both lists.
C11_Witness ==
    /\ IsGrowthBundle(templateData)
    /\ templateData.netPromoterScores[4].percentage > templateData.netPromoterScores[1].percentage
    /\ templateData.activitiesScores[6].percentage > templateData.activitiesScores[1].percentage
    /\ templateData.netPromoterScores[4].category = "D"

ScalarCall == Ranked /\ call.fn = "calculateDistribution"

\* C12: calculateDistribution leaves a record whose field is undefined, null,
\* empty or blank out of the counts and of the total; the values that are equal
\* once stringified and trimmed are counted under one label, whose count is
\* their number; no entry has an empty label or a count of 0.
C12_ScalarNormalisation ==
    ScalarCall =>
        LET dist == result.dist
            seen == CountedLabels(result.raws, FALSE)
        IN  /\ result.total = Len(seen)
            /\ \A i \in 1..Len(dist) :
                  /\ dist[i].label # ""
                  /\ dist[i].count > 0
                  /\ \E k \in 1..Len(seen) : seen[k] = dist[i].label
                  /\ \A j \in 1..Len(dist) : dist[j].label = dist[i].label => j = i
            /\ \A k \in 1..Len(seen) : CountOf(seen[k], dist) = Occurrences(seen[k], seen)

\* The responses of the exit records that hold exactly the category, over the
\* three numbered columns.
Responses(rows, columns, cat) ==
    {<<k, c>> \in (1..Len(rows)) \X (1..Len(columns)) :
        /\ HasOwn(rows[k][2], columns[c])
        /\ OwnValue(rows[k][2], columns[c]) = Str(cat)}

InDomain(rows, columns, cats) ==
    UNION {Responses(rows, columns, cats[i]) : i \in 1..Len(cats)}

FixedShares(dist, rows, columns, cats) ==
    /\ Len(dist) = Len(cats)
    /\ \A i \in 1..Len(cats) :
          /\ dist[i].category = cats[i]
          /\ IsRounded(dist[i].percentage,
                       Cardinality(Responses(rows, columns, cats[i])),
                       AtLeastOne(Cardinality(InDomain(rows, columns, cats))))
          /\ (InDomain(rows, columns, cats) = {} => dist[i].percentage = 0)

\* C13: progressTowardsGoals is None, Little, Some, Lots and experienceConnection
\* None, Partly, Largely, in that order; each percentage is the rounded share
\* of the category among the in-domain responses of the three numbered fields
\* of all exit records (over 1 when there is none, so every percentage is 0),
\* and values outside the domain are ignored.
C13_FixedCategoryShares ==
    /\ (result.returned /\ call.fn = "progressTowardsGoals") =>
            FixedShares(result.value, filteredExit, progressFields,
                        <<"None", "Little", "Some", "Lots">>)
    /\ (result.returned /\ call.fn = "experienceConnection") =>
            FixedShares(result.value, filteredExit, connectionFields,
                        <<"None", "Partly", "Largely">>)

\* C13 witness: exit records with responses in and out of the domain, three of
\* them in the domain, one of these Lots.
C13_Witness ==
    /\ result.returned
    /\ call.fn = "progressTowardsGoals"
    /\ Cardinality(InDomain(filteredExit, progressFields, progressCategories)) = 3
    /\ Cardinality(Responses(filteredExit, progressFields, "some")) > 0
    /\ result.value[4].percentage = 33

\* An identifier that is absent, null or blank once trimmed.
Blank(id) ==
    \/ IsNullish(id)
    \/ /\ TypeOf(id) = "string"
       /\ \A i \in 1..Len(id[2]) : IsWhiteSpace(CharAt(id[2], i))

\* C14: a generate-report request whose sessionId or experienceId is absent,
\* null or blank is answered 400, the session being checked first, and nothing
\* is fetched, connected, rendered, launched or written for it.
C14_RejectedBeforeAnyWork ==
    (pc # "idle" /\ (Blank(req.sessionId) \/ Blank(req.experienceId))) =>
        /\ pc \in {"received", "done"}
        /\ effects = {}
        /\ templateData = NoBundle
        /\ openBrowsers = 0
        /\ (pc = "done" =>
                /\ res.status = 400
                /\ res.body = (IF Blank(req.sessionId) THEN "session is required"
                               ELSE "experience is required"))

\* C14 witness: a request with a session and a null experience has been
\* answered 400.
C14_Witness ==
    /\ pc = "done"
    /\ ~Blank(req.sessionId)
    /\ req.experienceId = Null
    /\ res.status = 400
    /\ res.body = "experience is required"

\* C17: every browser a generate-report request launches is closed in the
\* end, on every path of the request, the failing ones included.
C17_BrowserEventuallyClosed == (openBrowsers > 0) ~> (openBrowsers = 0)

InRange(pct, registered) == pct \in 0..100 /\ (registered = 0 => pct = 0)

\* C18: completionPercentage of a profile bundle, goalSettingPercentage and
\* exitFormPercentage of a growth bundle are integers in 0..100, and 0 when
\* totalRegistered is 0.
C18_PercentagesInRange ==
    /\ IsProfileBundle(templateData) =>
            InRange(templateData.completionPercentage, templateData.totalRegistered)
    /\ IsGrowthBundle(templateData) =>
            /\ InRange(templateData.goalSettingPercentage, templateData.totalRegistered)
            /\ InRange(templateData.exitFormPercentage, templateData.totalRegistered)

\* ------------------------------------------ claims on /api/experiences

\* The instances that have a label, by the rule of the listing.
Labelled == {i \in 1..Len(instances) : ExperienceOf(instances[i]) # NoExperience}

\* C15: the experiences of a 200 response hold every experience id at most
\* once, with the label of its first instance, in ascending order of label,
\* and no entry has an empty label.
C15_UniqueSortedExperiences ==
    (expRes.status = 200) =>
        LET list == expRes.experiences
        IN  /\ \A i \in 1..Len(list) : list[i].label # ""
            /\ \A i, j \in 1..Len(list) : list[i].id = list[j].id => i = j
            /\ \A i, j \in 1..Len(list) :
                  i < j => localeCompare(list[i].label, list[j].label) <= 0
            /\ \A k \in Labelled :
                  \E i \in 1..Len(list) :
                      /\ list[i].id = ExperienceOf(instances[k]).id
                      /\ \E f \in Labelled :
                            /\ list[i] = ExperienceOf(instances[f])
                            /\ \A e \in Labelled :
                                  ExperienceOf(instances[e]).id = list[i].id => f <= e

\* ------------------------------------------------- claims on getMongoDb

Callers == DOMAIN callers

\* C16: whatever the interleaving of the getMongoDb calls, at most one
\* MongoClient is constructed and connect is invoked at most once; every call
\* that returns hands out a handle of that one client; once the connection
\* attempt has failed no call returns and no new attempt is made.
C16_OneClientOneConnect ==
    /\ driver.clients <= 1
    /\ driver.connects <= 1
    /\ \A p \in Callers :
          callers[p].pc = "returned" => (callers[p].client = mongoClient /\ mongoClient = 1)
    /\ (\E k \in 1..Len(driver.promises) : driver.promises[k] = "rejected") =>
          /\ \A p \in Callers : callers[p].pc # "returned"
          /\ Len(driver.promises) = 1

\* C16 witness: three calls in flight at once, two returned by now and the
\* third still entering, over one client.
C16_Witness ==
    /\ callers # <<>>
    /\ \E p, q \in Callers :
          /\ p # q
          /\ callers[p].pc = "returned"
          /\ callers[q].pc = "awaiting"
    /\ \E p \in Callers : callers[p].pc = "idle"
    /\ driver.clients = 1

\* A call made after the connection attempt failed has failed as well.
C16_WitnessFailed ==
    /\ callers # <<>>
    /\ \A p \in Callers : callers[p].pc = "threw" /\ callers[p].error = "connect failed"
    /\ driver.connects = 1

====
